---- MODULE Spec2Model ----
(***************************************************************************)
(* The polling request queue of unmodified/v2/myJS.js: newAJAXCommand      *)
(* creates a request object and pushes it on ajaxList, pollAJAX drains a   *)
(* snapshot of the list every tick, dispatches finished and timed-out      *)
(* requests to their container and re-arms itself with setTimeout.         *)
(*                                                                         *)
(* JavaScript runs one task at a time: clicks, timers and XMLHttpRequest   *)
(* state changes happen only between tasks (pc = "idle").  A pollAJAX      *)
(* task is followed line by line through pc; an exception that leaves      *)
(* pollAJAX ends the task on the spot, before line 66 re-arms the timer.   *)
(*                                                                         *)
(* Spec is the queue under arbitrary commands.  SpecOrder starts from a    *)
(* full queue, SpecStatus is the page's status refresh (startinabit,       *)
(* startsd, UpdateStatusD) over the same queue, SpecXML is getXMLValue.    *)
(***************************************************************************)
EXTENDS Integers, Sequences, FiniteSets, TLC

VARIABLES
    window,      \* which request mechanism the browser offers (lines 12, 16)
    now,         \* what new Date().getTime() returns
    heap,        \* every object made by newAJAXCommand, identified by index
    ajaxList,    \* the global queue: a sequence of indices into heap
    pollTimers,  \* number of armed setTimeout("pollAJAX()", ...) timers
    pc,          \* position of the running pollAJAX task, "idle" when none
    i,           \* pollAJAX's loop counter
    curAjax,     \* pollAJAX's current object (index into heap, 0 = undefined)
    theTimer,    \* the time pollAJAX read when it started
    dispatched,  \* per object: the container invocations made for it
    aborts,      \* per object: the number of abort() calls on its request
    snap,        \* what the running (or last) tick saw when it started
    queup,       \* the global flag of startinabit (line 2)
    inabit,      \* number of armed setTimeout(startsd, 3000) timers (line 109)
    retries,     \* number of armed setTimeout(startsd, 1000) timers (line 304)
    xmlData,     \* getXMLValue's first argument
    field,       \* getXMLValue's second argument
    returned     \* what the call of getXMLValue gave its caller

\* The state of the status refresh (lines 105-117, 304-309).
refresh == <<queup, inabit, retries>>

\* A call of getXMLValue (lines 69-76).
call == <<xmlData, field, returned>>

vars == <<window, now, heap, ajaxList, pollTimers, pc, i, curAjax, theTimer,
          dispatched, aborts, snap, queup, inabit, retries, xmlData, field,
          returned>>

----------------------------------------------------------------------------
(* Program constants and the bounds of the model                           *)

timeOutMS == 30000

MaxObjects == 3
MaxQueue == 2
MaxLate == 1

\* The instants at which the model reads the clock: the page load, and for
\* an object made then the last instant that is no timeout and the next ones.
Instants == {0} \cup {timeOutMS + k : k \in 0..MaxLate}

\* container values: a function, the id of an element of the page, an id no
\* element has, and undefined (newAJAXCommand called with a url only).
Functions == {"handler"}
Elements == {"T"}
Strings == {"T", "Z"}

\* The calls of newAJAXCommand the model makes: <<url, container, repeat>>.
\* The first is startsd's (line 115), the third a button's (line 185, no
\* container, repeat undefined); the others use the repeat parameter and the
\* string containers of lines 41-42, with and without such an element.
\* The data parameter only goes to send() (lines 15, 20) and is left out.
Commands ==
    {<<"statusD.xml", "handler", FALSE>>,
     <<"rstatus.xml", "handler", TRUE>>,
     <<"0?1101=I=0", "undefined", FALSE>>,
     <<"rstatus.xml", "T", TRUE>>,
     <<"statusD.xml", "Z", FALSE>>}

Mechanisms == {"XMLHttpRequest", "ActiveXObject", "none"}

typeof(container) ==
    IF container \in Functions THEN "function"
    ELSE IF container \in Strings THEN "string"
    ELSE "undefined"

----------------------------------------------------------------------------
(* newAJAXCommand                                                          *)

\* The object newAJAXCommand builds.  With no mechanism ajaxReq stays null.
\* sent = FALSE is the call in which creating, opening or sending the
\* request throws: lastCalled is never assigned (-1) and nothing is pushed.
NewAjax(url, container, repeat, mech, sent) ==
    [url |-> url,
     container |-> container,
     repeat |-> repeat,
     ajaxReq |-> IF mech = "none" THEN "null" ELSE "request",
     readyState |-> IF mech # "none" /\ sent THEN 1 ELSE 0,
     status |-> 0,
     responseXML |-> "null",
     lastCalled |-> IF mech = "none" \/ sent THEN now ELSE -1]

\* TRUE when the call returns normally, FALSE when it throws to its caller.
Returns(mech, sent) == mech = "none" \/ sent

\* The heap and the queue after newAJAXCommand(url, container, repeat).
newAJAXCommand(h, q, url, container, repeat, sent) ==
    [heap |-> Append(h, NewAjax(url, container, repeat, window, sent)),
     ajaxList |-> IF Returns(window, sent) THEN Append(q, Len(h) + 1) ELSE q]

\* What is left of an object nothing refers to any more.
Collected ==
    [url |-> "", container |-> "undefined", repeat |-> FALSE,
     ajaxReq |-> "null", readyState |-> 0, status |-> 0,
     responseXML |-> "null", lastCalled |-> -1]

\* The bound of the model on a call of newAJAXCommand.
Room == Len(heap) < MaxObjects /\ Len(ajaxList) < MaxQueue

InList(q, id) == \E k \in 1..Len(q) : q[k] = id

\* When a task is over the only references to request objects are those in
\* ajaxList: every other object is garbage.
Collect(h, q) ==
    [id \in 1..Len(h) |-> IF InList(q, id) THEN h[id] ELSE Collected]

\* A click or a page script calls newAJAXCommand: a task of its own.
Issue ==
    /\ pc = "idle"
    /\ Room
    /\ \E c \in Commands, sent \in BOOLEAN :
          LET r == newAJAXCommand(heap, ajaxList, c[1], c[2], c[3], sent)
          IN /\ heap' = Collect(r.heap, r.ajaxList)
             /\ ajaxList' = r.ajaxList
    /\ dispatched' = Append(dispatched, <<>>)
    /\ aborts' = Append(aborts, 0)
    /\ UNCHANGED <<window, now, pollTimers, pc, i, curAjax, theTimer, snap>>
    /\ UNCHANGED <<refresh, call>>

----------------------------------------------------------------------------
(* The environment: the clock and the network.  Time passes between tasks  *)
(* and while a container function runs.                                    *)

\* The clock goes on to a later instant of the model.  The instants are at
\* least timeOutMS apart: a startsd timer (3000 or 1000 ms) fires first.
AdvanceTime ==
    /\ pc \in {"idle", "sink"}
    /\ inabit = 0 /\ retries = 0
    /\ \E t \in Instants :
          /\ t > now
          /\ now' = t
    /\ UNCHANGED <<window, heap, ajaxList, pollTimers, pc, i, curAjax,
                   theTimer, dispatched, aborts, snap>>
    /\ UNCHANGED <<refresh, call>>

\* The responses a request can complete with: status 200 with a body that
\* parsed as XML, status 200 with one that did not, and an error status.
Responses ==
    {[status |-> 200, responseXML |-> "document"],
     [status |-> 200, responseXML |-> "null"],
     [status |-> 404, responseXML |-> "null"]}

\* A request in flight completes: readyState 4.
Complete ==
    /\ pc = "idle"
    /\ \E id \in 1..Len(heap), resp \in Responses :
          /\ heap[id].ajaxReq = "request"
          /\ heap[id].readyState = 1
          /\ heap' = [heap EXCEPT ![id].readyState = 4,
                                  ![id].status = resp.status,
                                  ![id].responseXML = resp.responseXML]
    /\ UNCHANGED <<window, now, ajaxList, pollTimers, pc, i, curAjax,
                   theTimer, dispatched, aborts, snap>>
    /\ UNCHANGED <<refresh, call>>

----------------------------------------------------------------------------
(* pollAJAX                                                                *)

\* The timer fires: pollAJAX starts, reads the clock and the queue length.
\* A timer that stays armed after it has fired (setInterval).
FireInterval(timers) == timers

\* Lines 66, 78: setTimeout arms a one-shot timer, firing consumes it.
Fire(timers) == timers - 1

PollStart ==
    /\ pc = "idle"
    /\ pollTimers > 0
    /\ pollTimers' = Fire(pollTimers)
    /\ theTimer' = now
    /\ i' = Len(ajaxList)
    /\ curAjax' = 0
    /\ pc' = "loop"
    /\ snap' = [len |-> Len(ajaxList), objects |-> Len(heap), shifted |-> 0,
                list |-> ajaxList]
    /\ UNCHANGED <<window, now, heap, ajaxList, dispatched, aborts>>
    /\ UNCHANGED <<refresh, call>>

\* ajaxList.shift(): the removed head (0 for undefined) and the rest.
Shift(q) ==
    IF q = <<>> THEN [head |-> 0, rest |-> q]
    ELSE [head |-> Head(q), rest |-> Tail(q)]

Ready(r) == r.readyState = 4 /\ r.status = 200

Elapsed(r) == theTimer - r.lastCalled

\* What lines 38-64 do with the object r they took from the queue:
\*   "TypeError" a property of null is read (lines 38, 40, 42)
\*   "call"      the container function is called (lines 40, 54)
\*   "write"     the response text is written to the named element (line 42)
\*   "skip"      ready, but the container is neither function nor string
\*   "alert"     the failure alert is raised (line 56)
\*   "push"      the object goes back to the tail (line 64)
Outcome(r) ==
    IF r.ajaxReq = "null" THEN "TypeError"
    ELSE IF Ready(r) THEN
        IF typeof(r.container) = "function" THEN
            IF r.responseXML = "null" THEN "TypeError" ELSE "call"
        ELSE IF typeof(r.container) = "string" THEN
            IF r.container \in Elements THEN "write" ELSE "TypeError"
        ELSE "skip"
    ELSE IF Elapsed(r) > timeOutMS THEN
        IF typeof(r.container) = "function" THEN "call" ELSE "alert"
    ELSE "push"

\* Variant of Dispatch: line 54 hands the function the response body too.
DispatchBody(r, outcome) ==
    [branch |-> IF Ready(r) THEN "ready" ELSE "timeout",
     how |-> outcome,
     arg |-> IF outcome = "call" THEN "documentElement"
             ELSE IF outcome = "write" THEN "responseText"
             ELSE "none"]

\* The entry the dispatch log gets for an outcome that reaches the container.
Dispatch(r, outcome) ==
    [branch |-> IF Ready(r) THEN "ready" ELSE "timeout",
     how |-> outcome,
     arg |-> IF outcome = "call"
             THEN (IF Ready(r) THEN "documentElement" ELSE "null")
             ELSE IF outcome = "write" THEN "responseText"
             ELSE "none"]

\* abort(), ajaxReq = null: what is left of the request object afterwards.
Abort(r) ==
    [r EXCEPT !.ajaxReq = "null", !.readyState = 0, !.status = 0,
              !.responseXML = "null"]

\* Variant of AfterShift: the continue of line 62 is missing, the object
\* whose alert was raised falls through to line 64.
AfterShiftNoContinue(s, outcome) ==
    IF outcome \in {"push", "alert"} THEN Append(s.rest, s.head) ELSE s.rest

\* The queue after the pass: only line 64 puts the object back.
AfterShift(s, outcome) ==
    IF outcome = "push" THEN Append(s.rest, s.head) ELSE s.rest

\* Variant of AtContainer: abort() and the release come before the call.
AtContainerAborted(r, outcome) ==
    IF outcome = "call" THEN Abort(r) ELSE r

\* The request of the object when its container is reached: lines 38-43 and
\* 52-57 only read it, abort() comes after the container (lines 45, 58).
AtContainer(r, outcome) == r

\* An exception leaves pollAJAX: the task is over and line 66 never runs.
Thrown ==
    /\ pc' = "threw"
    /\ UNCHANGED <<i, curAjax, pollTimers>>

\* One pass of the loop body up to the container call (lines 32-43, 52-57, 64).
PollIter ==
    /\ pc = "loop"
    /\ i > 0
    /\ LET s == Shift(ajaxList)
           r == heap[s.head]
           outcome == IF s.head = 0 THEN "continue" ELSE Outcome(r)
       IN /\ snap' = [snap EXCEPT !.shifted = @ + 1]
          /\ ajaxList' = AfterShift(s, outcome)
          /\ heap' = IF s.head = 0 THEN heap
                     ELSE [heap EXCEPT ![s.head] = AtContainer(r, outcome)]
          /\ dispatched' =
                IF outcome \in {"call", "write", "skip", "alert"}
                THEN [dispatched EXCEPT
                        ![s.head] = Append(@, Dispatch(r, outcome))]
                ELSE dispatched
          /\ curAjax' = s.head
          /\ i' = IF outcome \in {"push", "continue"} THEN i - 1 ELSE i
          /\ pc' = CASE outcome = "TypeError" -> "threw"
                     [] outcome = "call" -> "sink"
                     [] outcome \in {"write", "skip", "alert"} -> "release"
                     [] OTHER -> "loop"
          /\ UNCHANGED pollTimers
    /\ UNCHANGED <<window, now, theTimer, aborts>>
    /\ UNCHANGED <<refresh, call>>

\* The container function, while it runs, calls newAJAXCommand itself.
HandlerIssue ==
    /\ pc = "sink"
    /\ Room
    /\ \E c \in Commands, sent \in BOOLEAN :
          LET r == newAJAXCommand(heap, ajaxList, c[1], c[2], c[3], sent)
          IN /\ heap' = r.heap
             /\ ajaxList' = r.ajaxList
             /\ IF Returns(window, sent)
                THEN UNCHANGED <<pc, i, curAjax, pollTimers>>
                ELSE Thrown
    /\ dispatched' = Append(dispatched, <<>>)
    /\ aborts' = Append(aborts, 0)
    /\ UNCHANGED <<window, now, theTimer, snap>>
    /\ UNCHANGED <<refresh, call>>

\* The container function returns to line 45 or 58.
HandlerReturn ==
    /\ pc = "sink"
    /\ pc' = "release"
    /\ UNCHANGED <<window, now, heap, ajaxList, pollTimers, i, curAjax,
                   theTimer, dispatched, aborts, snap>>
    /\ UNCHANGED <<refresh, call>>

\* The container function throws (UpdateStatusD does on a null argument:
\* MA[20] becomes null and MA[20].charAt is read).
HandlerThrow ==
    /\ pc = "sink"
    /\ Thrown
    /\ UNCHANGED <<window, now, heap, ajaxList, theTimer, dispatched, aborts,
                   snap>>
    /\ UNCHANGED <<refresh, call>>

\* Lines 45-49 and 58-62: abort and release the request, re-issue on repeat.
Release ==
    /\ pc = "release"
    /\ LET r == heap[curAjax]
           h == [heap EXCEPT ![curAjax] = Abort(r)]
       IN /\ aborts' = IF r.repeat THEN Append([aborts EXCEPT ![curAjax] = @ + 1], 0)
                       ELSE [aborts EXCEPT ![curAjax] = @ + 1]
          /\ IF r.repeat
             THEN /\ Room
                  /\ \E sent \in BOOLEAN :
                        LET n == newAJAXCommand(h, ajaxList, r.url,
                                                r.container, r.repeat, sent)
                        IN /\ heap' = n.heap
                           /\ ajaxList' = n.ajaxList
                           /\ IF Returns(window, sent)
                              THEN /\ i' = i - 1
                                   /\ pc' = "loop"
                                   /\ UNCHANGED <<curAjax, pollTimers>>
                              ELSE Thrown
                  /\ dispatched' = Append(dispatched, <<>>)
             ELSE /\ heap' = h
                  /\ i' = i - 1
                  /\ pc' = "loop"
                  /\ UNCHANGED <<ajaxList, curAjax, pollTimers, dispatched>>
    /\ UNCHANGED <<window, now, theTimer, snap>>
    /\ UNCHANGED <<refresh, call>>

\* The loop is over: line 66 arms the next tick.
PollEnd ==
    /\ pc = "loop"
    /\ i = 0
    /\ pollTimers' = pollTimers + 1
    /\ pc' = "done"
    /\ UNCHANGED <<window, now, heap, ajaxList, i, curAjax, theTimer,
                   dispatched, aborts, snap>>
    /\ UNCHANGED <<refresh, call>>

NoSnap == [len |-> 0, objects |-> 0, shifted |-> 0, list |-> <<>>]

\* The task is over, by return or by exception: its locals are gone and the
\* browser goes on to the next event.
TaskEnd ==
    /\ pc \in {"done", "threw"}
    /\ pc' = "idle"
    /\ i' = 0
    /\ curAjax' = 0
    /\ theTimer' = 0
    /\ snap' = NoSnap
    /\ heap' = Collect(heap, ajaxList)
    /\ UNCHANGED <<window, now, ajaxList, pollTimers, dispatched, aborts>>
    /\ UNCHANGED <<refresh, call>>

----------------------------------------------------------------------------
(* getXMLValue (lines 69-76) and the DOM it reads.  A node has a type, a   *)
(* name, a nodeValue ("null" stands for null: element nodes have none) and *)
(* child nodes.                                                            *)

MaxChildren == 2
MaxFields == 2

Node(type, name, nodeValue, childNodes) ==
    [type |-> type, name |-> name, nodeValue |-> nodeValue,
     childNodes |-> childNodes]

\* null (what line 54 passes) and a value that is no DOM node at all.
Null == Node("null", "", "null", <<>>)
NoNode == Node("string", "", "null", <<>>)

Texts == {Node("text", "#text", v, <<>>) : v \in {"", "3", "4"}}
Comments == {Node("comment", "#comment", "c", <<>>)}
Inner == {Node("element", "b", "null", kids) :
            kids \in {<<>>, <<Node("text", "#text", "3", <<>>)>>}}

\* The sequences of at most n members of set S.
UpTo(S, n) == UNION {[1..m -> S] : m \in 0..n}

Fields == {"CDS", "RT"}

\* The elements a response holds for the fields, with any content.
FieldElements ==
    {Node("element", f, "null", kids) :
        f \in Fields, kids \in UpTo(Texts \cup Comments \cup Inner, MaxChildren)}

\* The document elements of the responses.
Documents ==
    {Node("element", "response", "null", kids) :
        kids \in UpTo(FieldElements, MaxFields)}

Bodies == {Null, NoNode} \cup Documents

RECURSIVE Descendants(_, _)
\* The element nodes named tag below the nodes kids, in document order.
Descendants(kids, tag) ==
    IF kids = <<>> THEN <<>>
    ELSE LET h == Head(kids)
         IN (IF h.type = "element" /\ h.name = tag THEN <<h>> ELSE <<>>)
            \o Descendants(h.childNodes, tag)
            \o Descendants(Tail(kids), tag)

getElementsByTagName(node, tag) == Descendants(node.childNodes, tag)

\* The values JavaScript takes for false in the if of line 72.
Falsy == {"null", ""}

\* The try block, lines 71-72: "TypeError" when an expression on the way
\* reads a property of null or undefined or calls what is no function.
Try(data, tag) ==
    IF data.type # "element" THEN "TypeError"
    ELSE LET found == getElementsByTagName(data, tag)
         IN IF found = <<>> THEN "TypeError"
            ELSE IF found[1].childNodes = <<>> THEN "TypeError"
            ELSE LET value == found[1].childNodes[1].nodeValue
                 IN IF value \in Falsy THEN "null" ELSE value

\* Lines 69-76: the catch of line 74 turns every exception into null.
getXMLValue(data, tag) ==
    LET result == Try(data, tag)
    IN IF result = "TypeError" THEN "null" ELSE result

NotCalled == "not called"

\* One call of getXMLValue.
Call ==
    /\ returned = NotCalled
    /\ returned' = getXMLValue(xmlData, field)
    /\ UNCHANGED <<window, now, heap, ajaxList, pollTimers, pc, i, curAjax,
                   theTimer, dispatched, aborts, snap, refresh, xmlData,
                   field>>

----------------------------------------------------------------------------
(* The status refresh: startinabit, startsd and UpdateStatusD              *)

\* Lines 105-110: the flag and the armed timers after startinabit().
startinabit(flag, timers) ==
    IF flag = 1 THEN [queup |-> flag, inabit |-> timers]
    ELSE [queup |-> 1, inabit |-> timers + 1]

\* Lines 112-117: the command startsd() issues.
startsd(h, q, sent) ==
    newAJAXCommand(h, q, "statusD.xml", "handler", FALSE, sent)

\* Line 185: a scene button is clicked, (newAJAXCommand(url), startinabit()).
\* When newAJAXCommand throws, startinabit is not reached.
Click ==
    /\ pc = "idle"
    /\ Room
    /\ \E sent \in BOOLEAN :
          LET r == newAJAXCommand(heap, ajaxList, "0?1101=I=0", "undefined",
                                  FALSE, sent)
              s == startinabit(queup, inabit)
          IN /\ heap' = Collect(r.heap, r.ajaxList)
             /\ ajaxList' = r.ajaxList
             /\ IF Returns(window, sent)
                THEN queup' = s.queup /\ inabit' = s.inabit
                ELSE UNCHANGED <<queup, inabit>>
    /\ dispatched' = Append(dispatched, <<>>)
    /\ aborts' = Append(aborts, 0)
    /\ UNCHANGED <<window, now, pollTimers, pc, i, curAjax, theTimer, snap,
                   retries, call>>

\* Lines 152 and 267: startsd() called by the Update Status button or by
\* the page script.
StartSD ==
    /\ pc = "idle"
    /\ Room
    /\ \E sent \in BOOLEAN :
          LET r == startsd(heap, ajaxList, sent)
          IN /\ heap' = Collect(r.heap, r.ajaxList)
             /\ ajaxList' = r.ajaxList
    /\ dispatched' = Append(dispatched, <<>>)
    /\ aborts' = Append(aborts, 0)
    /\ UNCHANGED <<window, now, pollTimers, pc, i, curAjax, theTimer, snap,
                   refresh, call>>

\* The timer of line 109 fires: startsd().
InABit ==
    /\ pc = "idle"
    /\ inabit > 0
    /\ Room
    /\ inabit' = inabit - 1
    /\ \E sent \in BOOLEAN :
          LET r == startsd(heap, ajaxList, sent)
          IN /\ heap' = Collect(r.heap, r.ajaxList)
             /\ ajaxList' = r.ajaxList
    /\ dispatched' = Append(dispatched, <<>>)
    /\ aborts' = Append(aborts, 0)
    /\ UNCHANGED <<window, now, pollTimers, pc, i, curAjax, theTimer, snap,
                   queup, retries, call>>

\* The timer of line 304 fires: startsd().
Retry ==
    /\ pc = "idle"
    /\ retries > 0
    /\ Room
    /\ retries' = retries - 1
    /\ \E sent \in BOOLEAN :
          LET r == startsd(heap, ajaxList, sent)
          IN /\ heap' = Collect(r.heap, r.ajaxList)
             /\ ajaxList' = r.ajaxList
    /\ dispatched' = Append(dispatched, <<>>)
    /\ aborts' = Append(aborts, 0)
    /\ UNCHANGED <<window, now, pollTimers, pc, i, curAjax, theTimer, snap,
                   queup, inabit, call>>

\* The device is still busy: every scene reports 2.
Busy == "2222222222222222"

\* What getXMLValue(xmlData, 'CDS') can give line 273.
CDS(arg) ==
    IF arg = "null" THEN {"null"} ELSE {Busy, "0000000000000000", "null"}

\* Lines 271-310, the container of startsd's command.  With scenes on the
\* page the loop reads MA[20].charAt and throws when MA[20] is null.
UpdateStatusD ==
    /\ pc = "sink"
    /\ \E cds \in CDS(dispatched[curAjax][1].arg), scenes \in BOOLEAN :
          IF cds = "null" /\ scenes
          THEN Thrown /\ UNCHANGED refresh
          ELSE /\ pc' = "release"
               /\ UNCHANGED <<i, curAjax, pollTimers>>
               /\ IF cds = Busy
                  THEN retries' = retries + 1 /\ UNCHANGED <<queup, inabit>>
                  ELSE queup' = 0 /\ UNCHANGED <<inabit, retries>>
    /\ UNCHANGED <<window, now, heap, ajaxList, theTimer, dispatched, aborts,
                   snap, call>>

----------------------------------------------------------------------------
(* The system: the page is loaded, line 78 has armed the first tick.       *)

\* Line 2, and no startsd timer armed yet.
NoRefresh == queup = 0 /\ inabit = 0 /\ retries = 0

NoCall == xmlData = Null /\ field = "CDS" /\ returned = NotCalled

\* Lines 1-3 and 78: nothing issued, the first tick armed.
Loaded ==
    /\ now = 0
    /\ heap = <<>>
    /\ ajaxList = <<>>
    /\ pollTimers = 1
    /\ pc = "idle"
    /\ i = 0
    /\ curAjax = 0
    /\ theTimer = 0
    /\ dispatched = <<>>
    /\ aborts = <<>>
    /\ snap = NoSnap

Init ==
    /\ window \in Mechanisms
    /\ Loaded
    /\ NoRefresh
    /\ NoCall

Next ==
    \/ Issue
    \/ AdvanceTime
    \/ Complete
    \/ PollStart
    \/ PollIter
    \/ HandlerIssue
    \/ HandlerReturn
    \/ HandlerThrow
    \/ Release
    \/ PollEnd
    \/ TaskEnd

Spec == Init /\ [][Next]_vars

\* The commands that ask for no repetition (lines 114, 185).
Clicks == {c \in Commands : ~c[3]}

\* The page a moment after loading: as many commands as the model has
\* objects were issued by clicks before the first tick, every one was sent.
InitOrder ==
    /\ window \in Mechanisms
    /\ now = 0
    /\ \E calls \in [1..MaxObjects -> Clicks] :
          heap = [k \in 1..MaxObjects |->
                    NewAjax(calls[k][1], calls[k][2], calls[k][3], window, TRUE)]
    /\ ajaxList = [k \in 1..MaxObjects |-> k]
    /\ pollTimers = 1
    /\ pc = "idle"
    /\ i = 0
    /\ curAjax = 0
    /\ theTimer = 0
    /\ dispatched = [k \in 1..MaxObjects |-> <<>>]
    /\ aborts = [k \in 1..MaxObjects |-> 0]
    /\ snap = NoSnap
    /\ NoRefresh
    /\ NoCall

\* The ticks over that queue; no further command is issued.
NextOrder ==
    \/ AdvanceTime
    \/ Complete
    \/ PollStart
    \/ PollIter
    \/ HandlerReturn
    \/ HandlerThrow
    \/ Release
    \/ PollEnd
    \/ TaskEnd

SpecOrder == InitOrder /\ [][NextOrder]_vars

\* getXMLValue alone, on every body and field of the model.
InitXML ==
    /\ window = "XMLHttpRequest"
    /\ Loaded
    /\ NoRefresh
    /\ xmlData \in Bodies
    /\ field \in Fields
    /\ returned = NotCalled

NextXML == Call

SpecXML == InitXML /\ [][NextXML]_vars

\* The page with its scene buttons and its status request: every command
\* is a click's or startsd's, every container function is UpdateStatusD.
NextStatus ==
    \/ Click
    \/ StartSD
    \/ InABit
    \/ Retry
    \/ UpdateStatusD
    \/ AdvanceTime
    \/ Complete
    \/ PollStart
    \/ PollIter
    \/ Release
    \/ PollEnd
    \/ TaskEnd

SpecStatus == Init /\ [][NextStatus]_vars

TypeOK ==
    /\ window \in Mechanisms
    /\ now \in Instants
    /\ Len(heap) <= MaxObjects
    /\ Len(dispatched) = Len(heap)
    /\ Len(aborts) = Len(heap)
    /\ \A k \in 1..Len(ajaxList) : ajaxList[k] \in 1..Len(heap)
    /\ pollTimers \in 0..1
    /\ pc \in {"idle", "loop", "sink", "release", "done", "threw"}
    /\ curAjax \in 0..Len(heap)

----------------------------------------------------------------------------
(* Properties                                                              *)

Objects == 1..Len(heap)

\* The task has ended, its locals and unreferenced objects are still there.
TaskOver == pc \in {"done", "threw"}

\* The object went through line 24: it was in the queue at some time.
\* (Objects of ended tasks that left the queue are Collected.)
WasQueued(k) == heap[k].lastCalled >= 0

Branch(k) == dispatched[k][1].branch

\* C1: a record is dispatched at most once: it is in the queue at most
\* once, and once it has been dispatched (ready or timeout) it is not in
\* ajaxList any more and no second dispatch is recorded for it.
C1_DispatchedAtMostOnce ==
    \A k \in Objects :
        /\ Len(dispatched[k]) <= 1
        /\ Cardinality({j \in 1..Len(ajaxList) : ajaxList[j] = k}) <= 1
        /\ dispatched[k] # <<>> => ~InList(ajaxList, k)

\* C1 witness: a tick is dispatching a record while an earlier record has
\* been dispatched in an earlier tick and collected.
C1_Witness ==
    /\ pc = "sink"
    /\ \E k \in Objects :
          /\ k # curAjax
          /\ Len(dispatched[k]) = 1
          /\ heap[k] = Collected

\* C8 as stated: while the container function of a record runs, the
\* record's request has been aborted and released.
C8_SinkAfterAbort ==
    pc = "sink" => aborts[curAjax] = 1 /\ heap[curAjax].ajaxReq = "null"

\* C8 amended: the container is reached before the abort.  While the
\* container function runs, and until lines 45/58 run, the record holds its
\* live request, not aborted; a request is aborted only after its record's
\* dispatch, and at most once.
C8_SinkBeforeAbort ==
    /\ pc \in {"sink", "release"} =>
          /\ dispatched[curAjax] # <<>>
          /\ heap[curAjax].ajaxReq = "request"
          /\ aborts[curAjax] = 0
    /\ \A k \in Objects :
          /\ aborts[k] <= 1
          /\ aborts[k] = 1 => dispatched[k] # <<>>

\* C8 witness: a record whose container function was called and returned
\* has had its request aborted.
C8_Witness ==
    \E k \in Objects :
        /\ dispatched[k] # <<>>
        /\ dispatched[k][1].how = "call"
        /\ aborts[k] = 1

\* C2: when a tick is over, the number of shift() calls it made equals the
\* queue length it read at its start, and every object made during the tick
\* that was pushed is still in the queue and has not been dispatched.
C2_SnapshotDrained ==
    TaskOver =>
        /\ snap.shifted = snap.len
        /\ \A k \in (snap.objects + 1)..Len(heap) :
              /\ dispatched[k] = <<>>
              /\ WasQueued(k) => InList(ajaxList, k)

\* The record has not been seen ready with status 200 by the scheduler.
NeverReady(k) ==
    /\ ~Ready(heap[k])
    /\ dispatched[k] # <<>> => Branch(k) = "timeout"

\* C3: a record that was queued and whose request never became ready is not
\* dispatched while it is in the queue, and when it has left the queue it
\* has been dispatched exactly once, by the timeout branch, in a tick whose
\* elapsed time for it exceeds timeOutMS.
C3_NeverReadyTimesOut ==
    \A k \in Objects :
        (WasQueued(k) /\ NeverReady(k)) =>
            IF InList(ajaxList, k) THEN dispatched[k] = <<>>
            ELSE /\ Len(dispatched[k]) = 1
                 /\ Branch(k) = "timeout"
                 /\ Elapsed(heap[k]) > timeOutMS

\* C4: a record taken from the queue by a tick that finds its request ready
\* with status 200 before timeOutMS has elapsed has been dispatched exactly
\* once, by the ready branch, and is not in the queue.
C4_ReadyDispatched ==
    \A k \in Objects :
        (WasQueued(k) /\ Ready(heap[k]) /\ Elapsed(heap[k]) < timeOutMS
            /\ pc # "idle" /\ curAjax = k) =>
                /\ Len(dispatched[k]) = 1
                /\ Branch(k) = "ready"
                /\ ~InList(ajaxList, k)

\* Object j is the re-issue of object k made by the running tick.
Reissue(k, j) ==
    /\ j > snap.objects
    /\ InList(ajaxList, j)
    /\ heap[j].url = heap[k].url
    /\ heap[j].container = heap[k].container
    /\ heap[j].repeat = TRUE

\* C5, at the end of a tick: for every record with repeat the tick has
\* dispatched, a re-issue with the same url, container and repeat is in the
\* queue.
C5_AtTaskEnd ==
    TaskOver =>
        \A k \in Objects :
            (WasQueued(k) /\ dispatched[k] # <<>> /\ heap[k].repeat) =>
                \E j \in Objects : Reissue(k, j)

\* C5, at lines 47-48 and 60-61: with repeat exactly one object is made and
\* appended, with the url, container and repeat of the dispatched record;
\* without repeat no object is made and the queue is left alone.
C5_AtRelease ==
    pc = "release" =>
        IF heap[curAjax].repeat
        THEN /\ Len(heap') = Len(heap) + 1
             /\ ajaxList' = Append(ajaxList, Len(heap'))
             /\ heap'[Len(heap')].url = heap[curAjax].url
             /\ heap'[Len(heap')].container = heap[curAjax].container
             /\ heap'[Len(heap')].repeat = TRUE
        ELSE /\ Len(heap') = Len(heap)
             /\ ajaxList' = ajaxList

\* C5: a tick that dispatches a record re-issues it exactly once when it has
\* repeat, and makes no record for it when it has not.
C5_RepeatReissued == [](C5_AtTaskEnd) /\ [][C5_AtRelease]_vars

\* C6, the call: a step in which newAJAXCommand makes an object appends
\* that object at the tail of ajaxList, leaves the objects in the queue as
\* they were and dispatches nothing.
C6_AtCall ==
    Len(heap') = Len(heap) + 1 =>
        /\ ajaxList' = Append(ajaxList, Len(heap'))
        /\ \A k \in 1..Len(ajaxList) : heap'[ajaxList[k]] = heap[ajaxList[k]]
        /\ dispatched' = Append(dispatched, <<>>)

\* C6, afterwards: no record in the queue has been dispatched, and no
\* record made during a tick is dispatched by that tick.
C6_NotBeforeItsTick ==
    \A k \in Objects :
        /\ InList(ajaxList, k) => dispatched[k] = <<>>
        /\ (pc # "idle" /\ k > snap.objects) => dispatched[k] = <<>>

\* C6: every call of newAJAXCommand lengthens ajaxList by one at the tail,
\* changes nothing else in the queue and dispatches nothing.
C6_IssueAppends == [](C6_NotBeforeItsTick) /\ [][C6_AtCall]_vars

\* C7: every record in the queue holds a request that has not been aborted;
\* when a tick is over every record it dispatched, and every record that
\* has left the queue, has had its request aborted exactly once.
C7_TransportOwned ==
    \A k \in Objects :
        /\ aborts[k] <= 1
        /\ InList(ajaxList, k) =>
              heap[k].ajaxReq = "request" /\ aborts[k] = 0
        /\ (pc \in {"idle", "done", "threw"} /\ dispatched[k] # <<>>) =>
              aborts[k] = 1
        /\ (TaskOver /\ WasQueued(k) /\ ~InList(ajaxList, k)) =>
              aborts[k] = 1

\* The record was made when no request mechanism was available.
NoTransport(k) ==
    WasQueued(k) /\ heap[k].ajaxReq = "null" /\ aborts[k] = 0

\* C9: a record made without a request stays in the queue until the timeout
\* branch dispatches it, once elapsed exceeds timeOutMS, and while it is in
\* the queue the polling loop is alive: a tick is running or armed.
C9_NoTransportTimesOut ==
    \A k \in Objects :
        NoTransport(k) =>
            /\ pc # "threw"
            /\ InList(ajaxList, k) \/
                  (/\ Len(dispatched[k]) = 1
                   /\ Branch(k) = "timeout"
                   /\ Elapsed(heap[k]) > timeOutMS)
            /\ (InList(ajaxList, k) /\ pc = "idle") => pollTimers = 1

\* The container function of record k was called and threw by itself (no
\* newAJAXCommand it called did): the lines after the call (45, 58) never
\* ran for it.
HandlerFaulted(k) ==
    /\ dispatched[k] # <<>>
    /\ dispatched[k][1].how = "call"
    /\ aborts[k] = 0
    /\ ~(pc \in {"sink", "release"} /\ curAjax = k)
    /\ \A j \in Objects : heap[j] = Collected \/ WasQueued(j)

\* C10: after a container function has thrown, the tick in which it threw
\* has still taken every record of its snapshot from the queue, and the
\* next tick is armed whenever no task is running.
C10_FaultIsolated ==
    (\E k \in Objects : HandlerFaulted(k)) =>
        /\ TaskOver => snap.shifted = snap.len
        /\ pc \in {"idle", "done", "threw"} => pollTimers = 1

\* Line 66 is the only place that arms a tick: the step that arms one is
\* the end of a tick whose loop has run out.
C11_ArmedAtEnd ==
    pollTimers' > pollTimers =>
        pc = "loop" /\ i = 0 /\ pc' = "done" /\ pollTimers' = 1

\* C11: at most one pollAJAX tick is executing or armed: while a tick is in
\* its loop or in a container function none is armed, never more than one
\* is armed, and the next one is armed only by the tick that finishes.
C11_SingleChain ==
    /\ [](/\ pollTimers \in {0, 1}
          /\ pc \in {"loop", "sink", "release"} => pollTimers = 0
          /\ pc = "threw" => pollTimers = 0)
    /\ [][C11_ArmedAtEnd]_vars

\* A tick in which a container function issued a command has finished and
\* armed the next one.
C11_Witness ==
    /\ pc = "done"
    /\ pollTimers = 1
    /\ snap.len > 0
    /\ Len(heap) > snap.objects

\* The request of record k is complete with a status other than 200.
ReadyNotOK(k) == heap[k].readyState = 4 /\ heap[k].status # 200

\* C12: a record whose request completed with a status other than 200 is
\* handled like one not yet ready: it is not dispatched while it is in the
\* queue, it is never dispatched by the ready branch, when it has left the
\* queue it has been dispatched by the timeout branch after more than
\* timeOutMS, and while it waits the polling that will dispatch it is alive.
C12_NotOKTimesOut ==
    \A k \in Objects :
        (WasQueued(k) /\ ReadyNotOK(k)) =>
            /\ dispatched[k] # <<>> => Branch(k) = "timeout"
            /\ IF InList(ajaxList, k) THEN dispatched[k] = <<>>
               ELSE Len(dispatched[k]) = 1 /\ Elapsed(heap[k]) > timeOutMS
            /\ InList(ajaxList, k) => (pc # "threw" /\ (pc = "idle" => pollTimers = 1))

\* The form the dispatch e of record r must have for the kind of its sink.
ByKind(r, e) ==
    /\ typeof(r.container) = "function" =>
          /\ e.how = "call"
          /\ e.arg = IF e.branch = "ready" THEN "documentElement" ELSE "null"
    /\ typeof(r.container) = "string" =>
          IF e.branch = "ready"
          THEN e.how = "write" /\ e.arg = "responseText"
          ELSE e.how = "alert" /\ e.arg = "none"

C14_Returns ==
    Len(heap') = Len(heap) + 1 =>
        /\ InList(ajaxList', Len(heap'))
        /\ heap'[Len(heap')].lastCalled = now
        /\ pc = "sink" => pc' = "sink"

\* A request that was made and could not be sent is waiting in the queue
\* for its timeout.
C14_UnsentQueued ==
    \A k \in Objects :
        (heap[k].ajaxReq = "request" /\ heap[k].readyState = 0) =>
            InList(ajaxList, k)

\* C14: newAJAXCommand never raises to its caller: also when sending fails
\* the call returns, the record is appended to ajaxList and waits there
\* for the timeout branch.
C14_NeverRaises == [](C14_UnsentQueued) /\ [][C14_Returns]_vars

\* C16: the ready branch has priority: a record the running tick took from
\* the queue and found ready with status 200 when more than timeOutMS had
\* already elapsed has been dispatched once, by the ready branch; a record
\* being served by the timeout branch is not ready with status 200; and no
\* record has more than one dispatch.
C16_ReadyBeforeTimeout ==
    \A k \in Objects :
        (WasQueued(k) /\ pc # "idle" /\ curAjax = k) =>
            /\ Len(dispatched[k]) <= 1
            /\ (Ready(heap[k]) /\ Elapsed(heap[k]) > timeOutMS) =>
                  /\ Len(dispatched[k]) = 1
                  /\ Branch(k) = "ready"
                  /\ ~InList(ajaxList, k)
            /\ (pc \in {"sink", "release"} /\ Branch(k) = "timeout") =>
                  ~Ready(heap[k])

\* C17: a pass of the loop over a record that is not ready with status 200
\* and for which at most timeOutMS has elapsed puts it back at the tail of
\* the queue with all its fields, creation time included, as they were, and
\* neither dispatches nor aborts anything; the tick goes on.
C17_PendingRequeued ==
    [][(pc = "loop" /\ i > 0 /\ ajaxList # <<>>) =>
         LET k == Head(ajaxList)
         IN (~Ready(heap[k]) /\ Elapsed(heap[k]) <= timeOutMS) =>
               /\ ajaxList' = Append(Tail(ajaxList), k)
               /\ heap' = heap
               /\ dispatched' = dispatched
               /\ aborts' = aborts
               /\ pc' = "loop"]_vars

\* While a container is served the running tick is not entered again: the
\* length it read and the passes it has made stay as they are.
C18_NotReentered ==
    pc \in {"sink", "release"} =>
        snap'.len = snap.len /\ snap'.shifted = snap.shifted

\* C18: a tick never makes more passes than the queue length it read at its
\* start and never processes a record made while it runs, it is over after
\* exactly that number of passes, and serving a record never enters
\* pollAJAX again.
C18_TickBounded ==
    /\ [](/\ pc # "idle" => (snap.shifted <= snap.len /\ curAjax <= snap.objects)
          /\ TaskOver => snap.shifted = snap.len)
    /\ [][C18_NotReentered]_vars

\* The place of object id in the queue q.
Pos(q, id) == CHOOSE p \in 1..Len(q) : q[p] = id

\* When a tick is over, two records that were in the queue when it started
\* and are both still in it stand in the order they had.
C19_OrderKept ==
    TaskOver =>
        \A a, b \in 1..Len(snap.list) :
            (/\ a < b
             /\ InList(ajaxList, snap.list[a])
             /\ InList(ajaxList, snap.list[b])) =>
                Pos(ajaxList, snap.list[a]) < Pos(ajaxList, snap.list[b])

\* A record appended while a tick runs goes behind everything the queue
\* holds at that moment, re-enqueued records included.
C19_NewAtTail ==
    (pc # "idle" /\ Len(heap') > Len(heap) /\ InList(ajaxList', Len(heap'))) =>
        ajaxList' = Append(ajaxList, Len(heap'))

\* C19: a tick keeps the relative order of the records that were in
\* ajaxList at its start and are still pending at its end, and records
\* appended during the tick stand behind every record re-enqueued before
\* they were made.
C19_OrderPreserved == [](C19_OrderKept) /\ [][C19_NewAtTail]_vars

RECURSIVE TextOf(_)
\* The text content of the nodes kids: the values of the text nodes in and
\* below them that are not empty, in document order.
TextOf(kids) ==
    IF kids = <<>> THEN <<>>
    ELSE LET h == Head(kids)
         IN (IF h.type = "text" /\ h.nodeValue # "" THEN <<h.nodeValue>> ELSE <<>>)
            \o TextOf(h.childNodes)
            \o TextOf(Tail(kids))

\* C15: getXMLValue(body, field) does not raise; it returns null when the
\* body is null or no document, when the body has no element named field,
\* and when the first such element has no text or only empty text; when
\* that element has text, it returns exactly that text.
C15_ExtractsText ==
    returned # NotCalled =>
        /\ returned # "TypeError"
        /\ LET found == IF xmlData.type = "element"
                        THEN getElementsByTagName(xmlData, field)
                        ELSE <<>>
           IN IF found = <<>> THEN returned = "null"
              ELSE IF TextOf(found[1].childNodes) = <<>> THEN returned = "null"
              ELSE TextOf(found[1].childNodes) = <<returned>>

\* C20: at most one startsd timer armed by startinabit is outstanding, and
\* while one is outstanding queup is 1.
C20_Debounced ==
    /\ inabit <= 1
    /\ inabit > 0 => queup = 1

====
